---- MODULE Spec2Model ----
(***************************************************************************)
(* Model of rs-partyplayer (src/src/main.rs): the startup sequence of      *)
(* main, the single-threaded control loop (poll_http_server followed by    *)
(* Player::poll_child), the persisted state file state.ini, the raw track  *)
(* list files.txt and the operating system's table of the player           *)
(* processes the supervisor spawned.                                       *)
(***************************************************************************)
EXTENDS Integers, Sequences, FiniteSets

(***************************************************************************)
(* Bounds of the model.                                                    *)
(***************************************************************************)
\* files.txt holds between 0 and MaxTracks lines.
MaxTracks == 3
\* Seeds are drawn from 0..MaxSeed (the program draws from 0..2^64-1).
MaxSeed == 1
\* The process is restarted at most MaxRuns times.
MaxRuns == 1

Seeds == 0..MaxSeed

\* The lines of files.txt: the first n of these, in this order.
TrackNames == <<"a.mp3", "b.mp3", "c.mp3", "d.mp3", "e.mp3">>

\* Option::None of current_track, and of child.
NoTrack == "None"
NoChild == [pid |-> 0, waited |-> FALSE]

(***************************************************************************)
(* Decimal text, as State::write formats and State::load parses it.  A     *)
(* text is a sequence of characters; the characters '0'..'9' are the       *)
(* numbers 0..9 and NonDigit stands for any other character.               *)
(***************************************************************************)
NonDigit == 10

RECURSIVE to_string(_)
to_string(n) == IF n < 10 THEN <<n>> ELSE to_string(n \div 10) \o <<n % 10>>

\* str::parse::<u64> / parse::<usize>: Err on the empty text and on any
\* character that is no digit.
ParseOk(s) == Len(s) > 0 /\ \A i \in 1..Len(s) : s[i] \in 0..9

RECURSIVE ParseVal(_)
ParseVal(s) ==
    IF Len(s) = 0 THEN 0
    ELSE 10 * ParseVal(SubSeq(s, 1, Len(s) - 1)) + s[Len(s)]

(***************************************************************************)
(* The contents of state.ini.  kind is                                     *)
(*   "absent"  : the file does not exist,                                  *)
(*   "garbage" : Ini::load_from_file returns Err,                          *)
(*   "nokeys"  : the file parses but has no [general] section, or lacks    *)
(*               seed or index (an empty or truncated file),               *)
(*   "ini"     : [general] with the texts of seed and index.               *)
(***************************************************************************)
FileOf(k, s, i) == [kind |-> k, seed |-> s, index |-> i]
AbsentFile == FileOf("absent", <<>>, <<>>)
GarbageFile == FileOf("garbage", <<>>, <<>>)
NoKeysFile == FileOf("nokeys", <<>>, <<>>)

\* A state file State::load accepts.
Loadable(f) == f.kind = "ini" /\ ParseOk(f.seed) /\ ParseOk(f.index)

\* State::write storing the cursor of the track just pulled instead of the
\* advanced cursor.
StateWrite_Stale(sd, idx) ==
    FileOf("ini", to_string(sd), to_string(IF idx > 0 THEN idx - 1 ELSE 0))

\* State::write storing the two values under each other's key.
StateWrite_SwappedKeys(sd, idx) == FileOf("ini", to_string(idx), to_string(sd))

\* State::write: the document it stores.
StateWrite(sd, idx) == FileOf("ini", to_string(sd), to_string(idx))

(***************************************************************************)
(* Playlist::new shuffles with StdRng::seed_from_u64(seed) and             *)
(* SliceRandom::shuffle: a Fisher-Yates pass from the last element down,   *)
(* swapping element i with an element drawn from the first i.  The         *)
(* generator is a deterministic function of the seed; a small linear       *)
(* congruential stream stands for its output.                              *)
(***************************************************************************)
SeedRng(sd) == (sd * 7 + 3) % 16
NextRand(x) == (x * 5 + 1) % 16

Swap(s, i, j) == [s EXCEPT ![i] = s[j], ![j] = s[i]]

RECURSIVE FisherYates(_, _, _)
FisherYates(s, i, x) ==
    IF i < 2 THEN s
    ELSE FisherYates(Swap(s, i, (x % i) + 1), i - 1, NextRand(x))

Shuffle(tracks, sd) == FisherYates(tracks, Len(tracks), SeedRng(sd))

Last(s) == s[Len(s)]

VARIABLES
    pc,             \* position of the process in main
    panicAt,        \* which panic aborted the process ("none" when none did)
    seed, index,    \* State
    files,          \* Playlist::files, shuffled
    child,          \* Player::child
    current_track,  \* Player::current_track
    req, reply,     \* the request of this iteration and the reply rendered
    httpErr,        \* whether poll_http_server returned Err in this iteration
    skipped,        \* outcome of Player::skip in this iteration
    tickResult,     \* outcome of the last poll_child that did something
    rawTracks,      \* files.txt
    stateFile,      \* state.ini
    alive, zombie,  \* children of this process: running / exited, un-reaped
    spawnCount,     \* processes spawned by this process so far
    runs,           \* restarts so far
    lastWrite,      \* the last State::write attempted by this process
    pulled,         \* positions Playlist::next returned in this run
    attempts,       \* spawn attempts of this run: position and outcome
    ticksSinceSkip, \* ticks completed since the last successful kill+wait
    prevMax,        \* highest position pulled by the previous run, or -1
    prevWriteOk,    \* whether that run's last state write succeeded
    prevRun,        \* the previous run's seed and playlist, and the state
                    \* file it left behind
    announced,      \* the track of the last println!("track ...")
    exitCode        \* exit code of the exited, un-reaped player process

vars == <<pc, panicAt, seed, index, files, child, current_track, req, reply,
          httpErr, skipped, tickResult, rawTracks, stateFile, alive, zombie,
          spawnCount, runs, lastWrite, pulled, attempts, ticksSinceSkip,
          prevMax, prevWriteOk, prevRun, announced, exitCode>>

progVars == <<seed, index, files, child, current_track>>
httpVars == <<req, reply, httpErr, skipped>>
envVars == <<rawTracks, stateFile>>
procVars == <<alive, zombie, spawnCount, exitCode>>
histVars == <<lastWrite, pulled, attempts, ticksSinceSkip, prevMax, prevWriteOk,
              prevRun, announced>>

\* What poll_http_server rendered: the kind of body and the track it names.
ReplyOf(k, t) == [kind |-> k, track |-> t]
NoReply == ReplyOf("none", NoTrack)

NoWrite == [done |-> FALSE, ok |-> FALSE, seed |-> 0, index |-> 0]

\* No previous run, or one that built no playlist or left no loadable state
\* file behind.
NoRun == [valid |-> FALSE, seed |-> 0, files |-> <<>>, cursor |-> 0]

LoopPcs == {"http", "tick", "tick_write", "tick_announce", "tick_spawn"}
RunningPcs == {"init", "build", "bind"} \cup LoopPcs
DeadPcs == {"exited", "panicked", "crashed"}

\* The state files a run can find at its first start: none, a damaged one,
\* or one written by an earlier run, possibly against a files.txt that has
\* since become shorter (State::load accepts any unsigned index).
InitialFiles ==
    {AbsentFile, GarbageFile, NoKeysFile,
     FileOf("ini", <<NonDigit>>, to_string(0)),
     FileOf("ini", to_string(0), <<NonDigit>>)}
    \cup {StateWrite(s, i) : s \in Seeds, i \in 0..MaxTracks}

Init ==
    /\ pc = "init"
    /\ panicAt = "none"
    /\ seed = 0 /\ index = 0
    /\ files = <<>>
    /\ child = NoChild
    /\ current_track = NoTrack
    /\ req = "none" /\ reply = NoReply /\ httpErr = FALSE /\ skipped = "none"
    /\ tickResult = "none"
    /\ \E n \in 0..MaxTracks : rawTracks = SubSeq(TrackNames, 1, n)
    /\ stateFile \in InitialFiles
    /\ alive = {} /\ zombie = {}
    /\ spawnCount = 0
    /\ runs = 0
    /\ lastWrite = NoWrite
    /\ pulled = <<>>
    /\ attempts = <<>>
    /\ ticksSinceSkip = 2
    /\ prevMax = -1
    /\ prevWriteOk = FALSE
    /\ prevRun = NoRun
    /\ announced = NoTrack
    /\ exitCode = 0

(***************************************************************************)
(* main, before the loop.                                                  *)
(***************************************************************************)
\* A panic or process::exit ends the process; its children are orphaned and
\* are no longer children of any supervisor.
Die(how, why) ==
    /\ pc' = how
    /\ panicAt' = why
    /\ alive' = {} /\ zombie' = {}
    /\ exitCode' = 0
    /\ UNCHANGED spawnCount

\* main that falls back to a fresh state when state.ini does not load.
MainLoadState_Regenerate ==
    /\ pc = "init"
    /\ \E fresh \in Seeds :
        IF Loadable(stateFile)
        THEN /\ seed' = ParseVal(stateFile.seed)
             /\ index' = ParseVal(stateFile.index)
        ELSE /\ seed' = fresh /\ index' = 0
    /\ pc' = "build"
    /\ UNCHANGED <<panicAt, procVars>>
    /\ UNCHANGED <<files, child, current_track, httpVars, tickResult,
                   envVars, runs, histVars>>

\* State::load that takes the cursor from state.ini but leaves the seed
\* State::new generated.
MainLoadState_KeepsFreshSeed ==
    /\ pc = "init"
    /\ \E fresh \in Seeds :
        /\ seed' = fresh
        /\ CASE stateFile.kind = "absent" ->
                /\ index' = 0
                /\ pc' = "build"
                /\ UNCHANGED <<panicAt, procVars>>
             [] stateFile.kind = "garbage" ->
                /\ index' = 0
                /\ Die("exited", "none")
             [] stateFile.kind = "nokeys" ->
                /\ index' = 0
                /\ Die("panicked", "state_unwrap")
             [] stateFile.kind = "ini" ->
                IF ~Loadable(stateFile)
                THEN /\ index' = 0
                     /\ Die("exited", "none")
                ELSE /\ index' = ParseVal(stateFile.index)
                     /\ pc' = "build"
                     /\ UNCHANGED <<panicAt, procVars>>
    /\ UNCHANGED <<files, child, current_track, httpVars, tickResult,
                   envVars, runs, histVars>>

\* State::new, then State::load when state.ini exists.
MainLoadState ==
    /\ pc = "init"
    /\ \E fresh \in Seeds :
        CASE stateFile.kind = "absent" ->
                /\ seed' = fresh /\ index' = 0
                /\ pc' = "build"
                /\ UNCHANGED <<panicAt, procVars>>
          [] stateFile.kind = "garbage" ->
                /\ seed' = fresh /\ index' = 0
                /\ Die("exited", "none")
          [] stateFile.kind = "nokeys" ->
                /\ seed' = fresh /\ index' = 0
                /\ Die("panicked", "state_unwrap")
          [] stateFile.kind = "ini" ->
                IF ~ParseOk(stateFile.seed)
                THEN /\ seed' = fresh /\ index' = 0
                     /\ Die("exited", "none")
                ELSE IF ~ParseOk(stateFile.index)
                THEN /\ seed' = ParseVal(stateFile.seed) /\ index' = 0
                     /\ Die("exited", "none")
                ELSE /\ seed' = ParseVal(stateFile.seed)
                     /\ index' = ParseVal(stateFile.index)
                     /\ pc' = "build"
                     /\ UNCHANGED <<panicAt, procVars>>
    /\ UNCHANGED <<files, child, current_track, httpVars, tickResult,
                   envVars, runs, histVars>>

\* Playlist::new: read files.txt (which may fail), shuffle.
MainBuildPlaylist ==
    /\ pc = "build"
    /\ \E readable \in BOOLEAN :
        IF readable
        THEN /\ files' = Shuffle(rawTracks, seed)
             /\ pc' = "bind"
             /\ UNCHANGED <<panicAt, procVars>>
        ELSE /\ files' = files
             /\ Die("exited", "none")
    /\ UNCHANGED <<seed, index, child, current_track, httpVars, tickResult,
                   envVars, runs, histVars>>

\* Server::http(..).unwrap() and Player::new.
MainBind ==
    /\ pc = "bind"
    /\ \E bound \in BOOLEAN :
        IF bound
        THEN /\ child' = NoChild
             /\ current_track' = NoTrack
             /\ pc' = "http"
             /\ UNCHANGED <<panicAt, procVars>>
        ELSE /\ UNCHANGED <<child, current_track>>
             /\ Die("panicked", "bind")
    /\ UNCHANGED <<seed, index, files, httpVars, tickResult, envVars, runs,
                   histVars>>

\* Player::skip that kills the process but does not wait for it.
Skip_NoWait(killOk, waitOk) ==
    IF child = NoChild
    THEN /\ skipped' = "idle"
         /\ UNCHANGED <<child, alive, zombie, exitCode>>
    ELSE IF child.waited \/ ~killOk
    THEN /\ skipped' = IF killOk THEN "ok" ELSE "err"
         /\ UNCHANGED <<child, alive, zombie, exitCode>>
    ELSE /\ skipped' = "ok"
         /\ alive' = alive \ {child.pid}
         /\ zombie' = zombie \cup {child.pid}
         /\ UNCHANGED <<child, exitCode>>

\* Player::skip that drops the handle once the process is reaped.
Skip_ClearsHandle(killOk, waitOk) ==
    IF child = NoChild
    THEN /\ skipped' = "idle"
         /\ UNCHANGED <<child, alive, zombie, exitCode>>
    ELSE IF child.waited \/ ~killOk
    THEN /\ skipped' = IF killOk THEN "ok" ELSE "err"
         /\ UNCHANGED <<child, alive, zombie, exitCode>>
    ELSE IF ~waitOk
    THEN /\ skipped' = "err"
         /\ alive' = alive \ {child.pid}
         /\ zombie' = zombie \cup {child.pid}
         /\ UNCHANGED <<child, exitCode>>
    ELSE /\ skipped' = "ok"
         /\ alive' = alive \ {child.pid}
         /\ zombie' = zombie \ {child.pid}
         /\ exitCode' = 0
         /\ child' = NoChild

\* Player::skip that reports an error when nothing is playing.
Skip_IdleError(killOk, waitOk) ==
    IF child = NoChild
    THEN /\ skipped' = "err"
         /\ UNCHANGED <<child, alive, zombie, exitCode>>
    ELSE IF child.waited \/ ~killOk
    THEN /\ skipped' = IF killOk THEN "ok" ELSE "err"
         /\ UNCHANGED <<child, alive, zombie, exitCode>>
    ELSE IF ~waitOk
    THEN /\ skipped' = "err"
         /\ alive' = alive \ {child.pid}
         /\ zombie' = zombie \cup {child.pid}
         /\ UNCHANGED <<child, exitCode>>
    ELSE /\ skipped' = "ok"
         /\ alive' = alive \ {child.pid}
         /\ zombie' = zombie \ {child.pid}
         /\ exitCode' = 0
         /\ child' = [child EXCEPT !.waited = TRUE]

(***************************************************************************)
(* Player::skip.  kill() and wait() each succeed or fail.  A handle that   *)
(* has already been waited on holds the exit status: wait() then returns   *)
(* it at once, and kill() returns Ok or Err depending on the library       *)
(* version.  A successful kill() leaves the process exited and un-reaped   *)
(* until wait() reaps it.  The handle is left in self.child on every path. *)
(***************************************************************************)
Skip(killOk, waitOk) ==
    IF child = NoChild
    THEN /\ skipped' = "idle"
         /\ UNCHANGED <<child, alive, zombie, exitCode>>
    ELSE IF child.waited
    THEN /\ skipped' = IF killOk THEN "ok" ELSE "err"
         /\ UNCHANGED <<child, alive, zombie, exitCode>>
    ELSE IF ~killOk
    THEN /\ skipped' = "err"
         /\ UNCHANGED <<child, alive, zombie, exitCode>>
    ELSE IF ~waitOk
    THEN /\ skipped' = "err"
         /\ alive' = alive \ {child.pid}
         /\ zombie' = zombie \cup {child.pid}
         /\ UNCHANGED <<child, exitCode>>
    ELSE /\ skipped' = "ok"
         /\ alive' = alive \ {child.pid}
         /\ zombie' = zombie \ {child.pid}
         /\ exitCode' = 0
         /\ child' = [child EXCEPT !.waited = TRUE]

(***************************************************************************)
(* poll_http_server: one action per outcome of recv_timeout and per route. *)
(* rq.respond may fail after the route was served (sent = FALSE).          *)
(***************************************************************************)
\* recv_timeout returned Ok(None).
HttpTimeout ==
    /\ pc = "http"
    /\ req' = "timeout" /\ reply' = NoReply /\ httpErr' = FALSE
    /\ skipped' = "none"
    /\ pc' = "tick"
    /\ UNCHANGED <<panicAt, progVars, tickResult, envVars, procVars, runs,
                   histVars>>

\* recv_timeout returned Err.
HttpRecvError ==
    /\ pc = "http"
    /\ req' = "error" /\ reply' = NoReply /\ httpErr' = TRUE
    /\ skipped' = "none"
    /\ pc' = "tick"
    /\ UNCHANGED <<panicAt, progVars, tickResult, envVars, procVars, runs,
                   histVars>>

\* "/skip"
HttpSkip ==
    /\ pc = "http"
    /\ \E killOk, waitOk \in BOOLEAN : Skip(killOk, waitOk)
    /\ req' = "/skip"
    /\ reply' = ReplyOf(IF skipped' = "err" THEN "skip_error" ELSE "redirect",
                        NoTrack)
    /\ \E sent \in BOOLEAN : httpErr' = ~sent
    /\ ticksSinceSkip' = IF skipped' = "ok" THEN 0 ELSE ticksSinceSkip
    /\ pc' = "tick"
    /\ UNCHANGED <<panicAt, seed, index, files, current_track, tickResult,
                   envVars, spawnCount, runs, lastWrite, pulled, attempts,
                   prevMax, prevWriteOk, prevRun, announced>>

\* "/": player.current_track.unwrap() panics on None.
HttpStatus ==
    /\ pc = "http"
    /\ req' = "/"
    /\ skipped' = "none"
    /\ IF current_track = NoTrack
       THEN /\ reply' = NoReply /\ httpErr' = FALSE
            /\ Die("panicked", "unwrap_track")
       ELSE /\ reply' = ReplyOf("status", current_track)
            /\ \E sent \in BOOLEAN : httpErr' = ~sent
            /\ pc' = "tick"
            /\ UNCHANGED <<panicAt, procVars>>
    /\ UNCHANGED <<progVars, tickResult, envVars, runs, histVars>>

\* any other route
HttpOther ==
    /\ pc = "http"
    /\ req' = "other"
    /\ skipped' = "none"
    /\ reply' = ReplyOf("supported", NoTrack)
    /\ \E sent \in BOOLEAN : httpErr' = ~sent
    /\ pc' = "tick"
    /\ UNCHANGED <<panicAt, progVars, tickResult, envVars, procVars, runs,
                   histVars>>

(***************************************************************************)
(* Player::poll_child.                                                     *)
(***************************************************************************)
TickDone == IF ticksSinceSkip < 2 THEN ticksSinceSkip + 1 ELSE 2

\* Playlist::next that forgets to advance the cursor.
NextIndex_Stuck(n) == n

\* Playlist::next: the cursor after the call.
NextIndex(n) == n + 1

\* Playlist::next that indexes with the cursor after incrementing it.
TickAdvance_ReadsAfterIncrement ==
    /\ pc = "tick"
    /\ child = NoChild
    /\ index' = index + 1
    /\ IF index + 1 < Len(files)
       THEN /\ current_track' = files[index + 2]
            /\ pulled' = Append(pulled, index)
            /\ pc' = "tick_write"
            /\ UNCHANGED <<panicAt, procVars>>
       ELSE /\ UNCHANGED <<current_track, pulled>>
            /\ Die("panicked", "index_oob")
    /\ UNCHANGED <<seed, files, child, httpVars, tickResult, envVars, runs,
                   lastWrite, attempts, ticksSinceSkip, prevMax, prevWriteOk,
                   prevRun, announced>>

\* Playlist::next, child = None: state.index += 1, then &self.files[n],
\* which panics when n is out of range.
TickAdvance ==
    /\ pc = "tick"
    /\ child = NoChild
    /\ index' = NextIndex(index)
    /\ IF index < Len(files)
       THEN /\ current_track' = files[index + 1]
            /\ pulled' = Append(pulled, index)
            /\ pc' = "tick_write"
            /\ UNCHANGED <<panicAt, procVars>>
       ELSE /\ UNCHANGED <<current_track, pulled>>
            /\ Die("panicked", "index_oob")
    /\ UNCHANGED <<seed, files, child, httpVars, tickResult, envVars, runs,
                   lastWrite, attempts, ticksSinceSkip, prevMax, prevWriteOk,
                   prevRun, announced>>

\* poll_child that does not write the state before announcing the track.
TickWrite_NotAttempted ==
    /\ pc = "tick_write"
    /\ pc' = "tick_announce"
    /\ UNCHANGED <<panicAt, progVars, httpVars, tickResult, envVars, procVars,
                   runs, histVars>>

\* self.state.write("state.ini"): a failure is printed and ignored.  A
\* failed write leaves the file as it was (create failed) or truncated
\* (create succeeded, the write did not).
TickWrite ==
    /\ pc = "tick_write"
    /\ \E outcome \in {"ok", "untouched", "truncated"} :
        /\ stateFile' = CASE outcome = "ok" -> StateWrite(seed, index)
                          [] outcome = "untouched" -> stateFile
                          [] outcome = "truncated" -> NoKeysFile
        /\ lastWrite' = [done |-> TRUE, ok |-> (outcome = "ok"),
                         seed |-> seed, index |-> index]
    /\ pc' = "tick_announce"
    /\ UNCHANGED <<panicAt, progVars, httpVars, tickResult, rawTracks,
                   procVars, runs, pulled, attempts, ticksSinceSkip, prevMax,
                   prevWriteOk, prevRun, announced>>

\* println!("track {}", self.current_track.unwrap().display()).
TickAnnounce ==
    /\ pc = "tick_announce"
    /\ announced' = current_track
    /\ pc' = "tick_spawn"
    /\ UNCHANGED <<panicAt, progVars, httpVars, tickResult, envVars, procVars,
                   runs, lastWrite, pulled, attempts, ticksSinceSkip, prevMax,
                   prevWriteOk, prevRun>>

\* A spawn failure that takes the cursor back, to retry the same track.
AfterSpawn_Retry(n, ok) == IF ok THEN n ELSE n - 1

\* The cursor after a spawn attempt at cursor n.
AfterSpawn(n, ok) == n

\* Command::spawn: Ok stores the handle, Err is printed and the supervisor
\* stays without a handle.
TickSpawn ==
    /\ pc = "tick_spawn"
    /\ \E ok \in BOOLEAN :
        /\ IF ok
           THEN /\ spawnCount' = spawnCount + 1
                /\ child' = [pid |-> spawnCount + 1, waited |-> FALSE]
                /\ alive' = alive \cup {spawnCount + 1}
                /\ tickResult' = "spawned"
           ELSE /\ UNCHANGED <<spawnCount, child, alive>>
                /\ tickResult' = "spawn_failed"
        /\ index' = AfterSpawn(index, ok)
        /\ attempts' = Append(attempts, [pos |-> Last(pulled), ok |-> ok])
    /\ ticksSinceSkip' = TickDone
    /\ pc' = "http"
    /\ UNCHANGED <<panicAt, seed, files, current_track, httpVars, envVars,
                   zombie, exitCode, runs, lastWrite, pulled, prevMax,
                   prevWriteOk, prevRun, announced>>

\* poll_child that drops the handle when the status check fails.
TickRunning_DropOnError ==
    /\ pc = "tick"
    /\ child # NoChild
    /\ \E checkOk \in BOOLEAN :
        IF child.waited
        THEN /\ child' = NoChild
             /\ tickResult' = "exited"
             /\ UNCHANGED <<alive, zombie, exitCode>>
        ELSE IF ~checkOk
        THEN /\ child' = NoChild
             /\ tickResult' = "check_error"
             /\ UNCHANGED <<alive, zombie, exitCode>>
        ELSE IF child.pid \in zombie
        THEN /\ child' = NoChild
             /\ zombie' = zombie \ {child.pid}
             /\ exitCode' = 0
             /\ tickResult' = "exited"
             /\ UNCHANGED alive
        ELSE /\ tickResult' = "alive"
             /\ UNCHANGED <<child, alive, zombie, exitCode>>
    /\ ticksSinceSkip' = IF ticksSinceSkip < 2 THEN ticksSinceSkip + 1 ELSE 2
    /\ pc' = "http"
    /\ UNCHANGED <<panicAt, seed, index, files, current_track, httpVars,
                   envVars, spawnCount, runs, lastWrite, pulled, attempts,
                   prevMax, prevWriteOk, prevRun, announced>>

\* poll_child that drops the handle only when the player exited with
\* success: try_wait has reaped the process, the handle keeps its status
\* (a failure, or the signal of a skip) and is never dropped.
TickRunning_OnlyOnSuccess ==
    /\ pc = "tick"
    /\ child # NoChild
    /\ \E checkOk \in BOOLEAN :
        IF child.waited
        THEN /\ tickResult' = "alive"
             /\ UNCHANGED <<child, alive, zombie, exitCode>>
        ELSE IF ~checkOk
        THEN /\ tickResult' = "check_error"
             /\ UNCHANGED <<child, alive, zombie, exitCode>>
        ELSE IF child.pid \in zombie
        THEN /\ child' = IF exitCode = 0 THEN NoChild
                         ELSE [child EXCEPT !.waited = TRUE]
             /\ zombie' = zombie \ {child.pid}
             /\ exitCode' = 0
             /\ tickResult' = IF exitCode = 0 THEN "exited" ELSE "alive"
             /\ UNCHANGED alive
        ELSE /\ tickResult' = "alive"
             /\ UNCHANGED <<child, alive, zombie, exitCode>>
    /\ ticksSinceSkip' = IF ticksSinceSkip < 2 THEN ticksSinceSkip + 1 ELSE 2
    /\ pc' = "http"
    /\ UNCHANGED <<panicAt, seed, index, files, current_track, httpVars,
                   envVars, spawnCount, runs, lastWrite, pulled, attempts,
                   prevMax, prevWriteOk, prevRun, announced>>

\* poll_child that forgets the current track when the player has exited.
TickRunning_ClearsTrack ==
    /\ pc = "tick"
    /\ child # NoChild
    /\ \E checkOk \in BOOLEAN :
        IF child.waited
        THEN /\ child' = NoChild
             /\ current_track' = NoTrack
             /\ tickResult' = "exited"
             /\ UNCHANGED <<alive, zombie, exitCode>>
        ELSE IF ~checkOk
        THEN /\ tickResult' = "check_error"
             /\ UNCHANGED <<child, current_track, alive, zombie, exitCode>>
        ELSE IF child.pid \in zombie
        THEN /\ child' = NoChild
             /\ current_track' = NoTrack
             /\ zombie' = zombie \ {child.pid}
             /\ exitCode' = 0
             /\ tickResult' = "exited"
             /\ UNCHANGED alive
        ELSE /\ tickResult' = "alive"
             /\ UNCHANGED <<child, current_track, alive, zombie, exitCode>>
    /\ ticksSinceSkip' = TickDone
    /\ pc' = "http"
    /\ UNCHANGED <<panicAt, seed, index, files, httpVars, envVars, spawnCount,
                   runs, lastWrite, pulled, attempts, prevMax, prevWriteOk,
                   prevRun, announced>>

\* child = Some(c): c.try_wait().  A handle already waited on returns its
\* status; otherwise the status check reports an exited process (and reaps
\* it), a process still alive, or an error.
TickRunning ==
    /\ pc = "tick"
    /\ child # NoChild
    /\ \E checkOk \in BOOLEAN :
        IF child.waited
        THEN /\ child' = NoChild
             /\ tickResult' = "exited"
             /\ UNCHANGED <<alive, zombie, exitCode>>
        ELSE IF ~checkOk
        THEN /\ tickResult' = "check_error"
             /\ UNCHANGED <<child, alive, zombie, exitCode>>
        ELSE IF child.pid \in zombie
        THEN /\ child' = NoChild
             /\ zombie' = zombie \ {child.pid}
             /\ exitCode' = 0
             /\ tickResult' = "exited"
             /\ UNCHANGED alive
        ELSE /\ tickResult' = "alive"
             /\ UNCHANGED <<child, alive, zombie, exitCode>>
    /\ ticksSinceSkip' = TickDone
    /\ pc' = "http"
    /\ UNCHANGED <<panicAt, seed, index, files, current_track, httpVars,
                   envVars, spawnCount, runs, lastWrite, pulled, attempts,
                   prevMax, prevWriteOk, prevRun, announced>>

(***************************************************************************)
(* The environment: a player process exits by itself; the process is       *)
(* terminated abruptly; the process is started again.                      *)
(***************************************************************************)
ChildExit ==
    /\ pc \in LoopPcs
    /\ \E p \in alive :
        /\ alive' = alive \ {p}
        /\ zombie' = zombie \cup {p}
    /\ exitCode' \in {0, 1}
    /\ UNCHANGED <<pc, panicAt, progVars, httpVars, tickResult, envVars,
                   spawnCount, runs, histVars>>

Crash ==
    /\ pc \in RunningPcs
    /\ Die("crashed", "none")
    /\ UNCHANGED <<progVars, httpVars, tickResult, envVars, runs, histVars>>

MaxOf(s) == CHOOSE m \in {s[i] : i \in 1..Len(s)} :
                \A i \in 1..Len(s) : s[i] <= m

Restart ==
    /\ pc \in DeadPcs
    /\ runs < MaxRuns
    /\ runs' = runs + 1
    /\ prevMax' = IF pulled = <<>> THEN -1 ELSE MaxOf(pulled)
    /\ prevWriteOk' = /\ pulled # <<>>
                      /\ lastWrite.done /\ lastWrite.ok
                      /\ lastWrite.index = MaxOf(pulled) + 1
    /\ pc' = "init"
    /\ panicAt' = "none"
    /\ seed' = 0 /\ index' = 0
    /\ files' = <<>>
    /\ child' = NoChild
    /\ current_track' = NoTrack
    /\ req' = "none" /\ reply' = NoReply /\ httpErr' = FALSE
    /\ skipped' = "none"
    /\ tickResult' = "none"
    /\ alive' = {} /\ zombie' = {}
    /\ spawnCount' = 0
    /\ lastWrite' = NoWrite
    /\ pulled' = <<>>
    /\ attempts' = <<>>
    /\ ticksSinceSkip' = 2
    /\ prevRun' = IF files # <<>> /\ Loadable(stateFile)
                   THEN [valid |-> TRUE, seed |-> seed, files |-> files,
                         cursor |-> ParseVal(stateFile.index)]
                   ELSE NoRun
    /\ announced' = NoTrack
    /\ exitCode' = 0
    /\ UNCHANGED envVars

Next ==
    \/ MainLoadState
    \/ MainBuildPlaylist
    \/ MainBind
    \/ HttpTimeout
    \/ HttpRecvError
    \/ HttpSkip
    \/ HttpStatus
    \/ HttpOther
    \/ TickAdvance
    \/ TickWrite
    \/ TickAnnounce
    \/ TickSpawn
    \/ TickRunning
    \/ ChildExit
    \/ Crash
    \/ Restart

Spec == Init /\ [][Next]_vars

\* One step of the program itself: main up to the loop, then lines 183-189.
ProgramNext ==
    \/ MainLoadState
    \/ MainBuildPlaylist
    \/ MainBind
    \/ HttpTimeout
    \/ HttpRecvError
    \/ HttpSkip
    \/ HttpStatus
    \/ HttpOther
    \/ TickAdvance
    \/ TickWrite
    \/ TickAnnounce
    \/ TickSpawn
    \/ TickRunning

\* The status check of a tick reports the exit and the handle is dropped.
TickReaps == TickRunning /\ child' = NoChild

\* One uninterrupted run: the program and its player processes.
LiveNext ==
    \/ ProgramNext
    \/ ChildExit

\* The run is not terminated from outside and the loop never blocks (recv
\* has a timeout, the sleep ends), so the program keeps taking steps while
\* it has one; every player process still alive eventually exits; the
\* status check of an exited player does not fail forever.
FairSpec ==
    /\ Init /\ [][LiveNext]_vars
    /\ WF_vars(ProgramNext)
    /\ WF_vars(ChildExit)
    /\ SF_vars(TickReaps)

(***************************************************************************)
(* Properties.                                                             *)
(***************************************************************************)
Unreaped == alive \cup zombie

\* A step of the program itself that leaves the position pc.
ProgramStep == pc' # pc /\ pc' # "crashed"

\* C1: at most one player process spawned by the supervisor is alive or
\* un-reaped; while the supervisor holds no handle it has no such process,
\* and the steps of a tick that lead to a spawn run only without a handle.
C1_AtMostOnePlayer ==
    /\ Cardinality(Unreaped) <= 1
    /\ child = NoChild => Unreaped = {}
    /\ child # NoChild => Unreaped \subseteq {child.pid}
    /\ pc \in {"tick_write", "tick_announce", "tick_spawn"} => child = NoChild

\* A second process runs after the first one was reaped.
C1_Witness == spawnCount >= 2 /\ Cardinality(Unreaped) = 1 /\ child # NoChild

AfterSkipRunning == pc = "tick" /\ req = "/skip" /\ skipped \in {"ok", "err"}

C5_SkipIdleNoOp ==
    [][(pc = "http" /\ child = NoChild /\ req' = "/skip" /\ ProgramStep) =>
        /\ skipped' = "idle"
        /\ reply'.kind = "redirect"
        /\ pc' = "tick"
        /\ UNCHANGED <<seed, index, files, child, current_track, stateFile,
                       alive, zombie, spawnCount, lastWrite, pulled,
                       attempts>>]_vars

\* skip() was served without a handle, after a track had played.
C5_Witness ==
    /\ pc = "tick" /\ req = "/skip" /\ skipped = "idle"
    /\ tickResult = "exited"

\* C6: a status request served while no track has started does not abort
\* the process; it renders a "no track yet" reply.  (Stated for a non-empty
\* playlist, so that the empty playlist of C8 plays no part.)
C6_StatusBeforeFirstTick ==
    (req = "/" /\ current_track = NoTrack /\ Len(files) > 0) =>
        (pc # "panicked" /\ reply.kind = "no_track")

\* C7: Playlist::next at a cursor >= len yields an error value; the tick
\* does not abort the process by indexing out of range.  (Stated for a
\* non-empty playlist, so that the empty playlist of C8 plays no part.)
C7_ExhaustedIsError == Len(files) > 0 => panicAt # "index_oob"

\* C8: the loop is never entered with a playlist of zero tracks.
C8_NoEmptyPlaylist == pc \in LoopPcs => Len(files) > 0

\* C9: once the playlist is built, the in-memory cursor and the cursor in
\* the state file are at most len(playlist), during and after every tick.
\* (Stated for a non-empty playlist, so that the empty playlist of C8 plays
\* no part.)
C9_CursorBound ==
    ((pc \in LoopPcs \/ panicAt = "index_oob") /\ Len(files) > 0) =>
        /\ 0 <= index /\ index <= Len(files)
        /\ (stateFile.kind = "ini" /\ ParseOk(stateFile.index)) =>
              ParseVal(stateFile.index) <= Len(files)

\* C10: after a tick whose spawn failed at position k the supervisor holds
\* no handle, the cursor is k+1 and a state write carrying k+1 was
\* attempted; the next tick pulls k+1 (when the playlist has that
\* position); the spawn attempts of a run are made at consecutive
\* positions, so k is not attempted again.
C10_SpawnFailurePolicy ==
    /\ (tickResult = "spawn_failed" /\ pc \in {"http", "tick"}) =>
          /\ child = NoChild /\ Unreaped = {}
          /\ attempts # <<>> /\ ~Last(attempts).ok
          /\ index = Last(attempts).pos + 1
          /\ lastWrite.done /\ lastWrite.index = index
          /\ lastWrite.seed = seed
    /\ (tickResult = "spawn_failed"
           /\ pc \in {"tick_write", "tick_announce", "tick_spawn"}) =>
          /\ Last(pulled) = Last(attempts).pos + 1
          /\ current_track = files[Last(attempts).pos + 2]
    /\ \A i \in 1..(Len(attempts) - 1) :
          attempts[i + 1].pos = attempts[i].pos + 1

\* A spawn failed and the next position was attempted after it.
C10_Witness == Len(attempts) >= 2 /\ ~attempts[1].ok

\* C11: every loop iteration performs its tick after the request step,
\* whatever the request step's outcome: every step that leaves the request
\* step enters poll_child.  (Stated for a non-empty playlist, so that the
\* empty playlist of C8 plays no part.)
C11_TickAfterEveryRequestStep ==
    [][(pc = "http" /\ Len(files) > 0 /\ ProgramStep) => pc' = "tick"]_vars

\* A state file that exists and that State::load does not accept.
Malformed(f) == f.kind # "absent" /\ ~Loadable(f)

\* C12: with a malformed state file at startup the process terminates
\* before the playlist is built, before any state-file write and before any
\* spawn; the playlist is never built while the file found is malformed.
C12_MalformedStateIsFatal ==
    [][/\ (pc = "init" /\ Malformed(stateFile) /\ ProgramStep) =>
            /\ pc' \in {"exited", "panicked"}
            /\ files' = <<>>
            /\ stateFile' = stateFile
            /\ ~lastWrite'.done
            /\ spawnCount' = 0 /\ Unreaped' = {}
       /\ pc' = "build" => ~Malformed(stateFile')
      ]_vars

\* A restarted run found the file a failed write had truncated, and ended.
C12_Witness ==
    /\ runs >= 1 /\ prevMax >= 0
    /\ pc = "panicked" /\ panicAt = "state_unwrap"
    /\ Malformed(stateFile) /\ files = <<>>

\* C13: a run restarted from the state file the previous run left behind
\* (files.txt being the same) has that run's seed and builds the same
\* shuffled playlist; its first pull is at the persisted cursor, and every
\* track it pulls is the track the previous run had at that position.
C13_RestartDeterminism ==
    (runs >= 1 /\ prevRun.valid /\ pc \in {"bind"} \cup LoopPcs) =>
        /\ seed = prevRun.seed
        /\ files = prevRun.files
        /\ pulled # <<>> =>
              /\ pulled[1] = prevRun.cursor
              /\ current_track = prevRun.files[Last(pulled) + 1]

\* A restarted run resumed in the middle of the previous run's playlist.
C13_Witness ==
    /\ runs >= 1 /\ prevRun.valid /\ prevRun.cursor >= 1
    /\ pc = "tick_spawn" /\ Len(pulled) = 1 /\ Len(files) >= 2
    /\ prevMax >= 0

\* The position pulled by the tick under way has had no spawn attempt yet.
NotYetAttempted == \A i \in 1..Len(attempts) : attempts[i].pos < Last(pulled)

\* C14: within a tick from Idle the order is advance, state write attempted
\* with the new cursor k+1, announce, spawn attempt: before the write no
\* write carries k+1 and nothing is announced or attempted for k; at the
\* announcement the write carrying k+1 has been attempted; at the spawn
\* attempt the track has been announced, and when the write succeeded the
\* state file holds the seed and k+1.
C14_WriteBeforeAnnounce ==
    /\ pc = "tick_write" =>
          /\ index = Last(pulled) + 1
          /\ lastWrite.done => lastWrite.index < index
          /\ announced # current_track
          /\ NotYetAttempted
    /\ pc = "tick_announce" =>
          /\ index = Last(pulled) + 1
          /\ lastWrite.done /\ lastWrite.index = index
          /\ lastWrite.seed = seed
          /\ announced # current_track
          /\ NotYetAttempted
    /\ pc = "tick_spawn" =>
          /\ index = Last(pulled) + 1
          /\ lastWrite.done /\ lastWrite.index = index
          /\ announced = current_track
          /\ NotYetAttempted
          /\ lastWrite.ok =>
                /\ Loadable(stateFile)
                /\ ParseVal(stateFile.index) = index
                /\ ParseVal(stateFile.seed) = seed
    /\ \A i \in 1..Len(attempts) :
          lastWrite.done /\ lastWrite.index >= attempts[i].pos + 1

\* The second track of a run is about to be spawned, its cursor saved.
C14_Witness ==
    pc = "tick_spawn" /\ lastWrite.ok /\ Len(pulled) >= 2 /\ attempts # <<>>

\* C15: a tick with a handle spawns nothing and leaves the cursor, the
\* current track and the state file alone; it drops the handle exactly when
\* the status check reports the exit (with any exit code), and keeps it
\* when the process is alive and when the check fails.
C15_TickWhileRunning ==
    [][(pc = "tick" /\ child # NoChild /\ ProgramStep) =>
        /\ pc' = "http"
        /\ UNCHANGED <<seed, index, files, current_track, stateFile,
                       spawnCount, alive, pulled, attempts, lastWrite,
                       announced>>
        /\ tickResult' \in {"exited", "alive", "check_error"}
        /\ (child' = NoChild) <=> (tickResult' = "exited")
        /\ tickResult' = "exited" =>
              /\ child.waited \/ child.pid \in zombie
              /\ child.pid \notin Unreaped'
        /\ tickResult' # "exited" => (child' = child /\ zombie' = zombie)
        /\ tickResult' = "alive" => child.pid \in alive
      ]_vars

\* A tick found that the player had exited by itself and dropped the handle.
C15_Witness ==
    /\ pc = "http" /\ tickResult = "exited" /\ child = NoChild
    /\ skipped # "ok" /\ attempts # <<>>

\* C16: within a run the cursor never decreases; it grows by exactly one on
\* each tick taken without a handle and on no other step; the positions
\* pulled are consecutive, starting at the cursor the run started with.
C16_CursorSteps ==
    [][(pc \in LoopPcs /\ pc' # "init") =>
        /\ index' >= index
        /\ (pc = "tick" /\ child = NoChild /\ ProgramStep) =>
              index' = index + 1
        /\ index' # index =>
              (pc = "tick" /\ child = NoChild /\ index' = index + 1)
        /\ pulled' # pulled => pulled' = Append(pulled, index)
        /\ \A i \in 1..Len(pulled') : pulled'[i] = pulled'[1] + i - 1
        /\ (pc' \in LoopPcs /\ pulled' # <<>>) =>
              index' = Last(pulled') + 1
      ]_vars

\* A run that started in the middle of the playlist pulled two positions.
C16_Witness == Len(pulled) >= 2 /\ pulled[1] >= 1 /\ pc = "http"

\* C17: while the loop runs, a recorded current track is the track at
\* position cursor - 1, the one pulled last; a track is recorded once a
\* tick has completed; the status route names that track.
C17_CurrentTrackIsLastPulled ==
    /\ (pc \in LoopPcs /\ current_track # NoTrack) =>
          /\ index >= 1 /\ index <= Len(files)
          /\ current_track = files[index]
          /\ pulled # <<>> /\ Last(pulled) = index - 1
    /\ (pc \in LoopPcs /\ tickResult # "none") => current_track # NoTrack
    /\ (pc = "tick" /\ req = "/") =>
          reply = ReplyOf("status", files[index])

\* After one tick from cursor 0 whose spawn failed, the status route named
\* the track at position 0.
C17_Witness ==
    /\ pc = "tick" /\ req = "/" /\ pulled = <<0>>
    /\ child = NoChild /\ reply.track = files[1]

\* Position p of the playlist has been pulled and its spawn attempted.
Attempted(p) == \E i \in 1..Len(attempts) : attempts[i].pos = p

C19_OneRequestThenTick ==
    [][/\ (pc = "http" /\ ProgramStep) =>
            /\ pc' \in {"tick", "panicked"}
            /\ req' \in {"timeout", "error", "/skip", "/", "other"}
            /\ reply' # NoReply => req' \in {"/skip", "/", "other"}
       /\ (pc \in LoopPcs \ {"http"} /\ pc' = "http") =>
            /\ pc \in {"tick", "tick_spawn"}
            /\ tickResult' # "none"
       /\ (pc = "http" /\ tickResult # "none" /\ req' = "/" /\ ProgramStep) =>
            /\ current_track # NoTrack
            /\ reply' = ReplyOf("status", current_track)
            /\ pc' = "tick"
       /\ (pc \in LoopPcs /\ current_track = NoTrack) =>
            /\ tickResult = "none" /\ pulled = <<>>
            /\ pc \in {"http", "tick"}
       /\ panicAt' = "unwrap_track" => tickResult' = "none"
      ]_vars

\* A status request was served in the third iteration or later, after the
\* player of the first track had exited.
C19_Witness ==
    /\ pc = "tick" /\ req = "/" /\ reply.kind = "status"
    /\ Len(pulled) >= 2 /\ child = NoChild

\* C20: after startup no step of the run changes the seed; every state
\* write is attempted with the run's seed and the current cursor, and a
\* write that succeeds leaves a file that parses to them; at every start of
\* a loop iteration whose latest write succeeded, the file parses to the
\* seed and cursor in memory.
C20_SeedFixedAndStateInSync ==
    [][(pc \in RunningPcs \ {"init"} /\ pc' # "init") =>
        /\ seed' = seed
        /\ lastWrite' # lastWrite =>
              /\ pc = "tick_write"
              /\ lastWrite'.done
              /\ lastWrite'.seed = seed /\ lastWrite'.index = index
              /\ lastWrite'.ok =>
                    /\ Loadable(stateFile')
                    /\ ParseVal(stateFile'.seed) = seed
                    /\ ParseVal(stateFile'.index) = index
        /\ stateFile' # stateFile => pc = "tick_write"
        /\ (pc' = "http" /\ lastWrite'.done /\ lastWrite'.ok) =>
              /\ Loadable(stateFile')
              /\ ParseVal(stateFile'.seed) = seed'
              /\ ParseVal(stateFile'.index) = index'
      ]_vars

\* A loop iteration starts after the second successful write of a run whose
\* seed differs from its cursor.
C20_Witness ==
    /\ pc = "http" /\ lastWrite.done /\ lastWrite.ok
    /\ Len(pulled) >= 2 /\ seed # index
    /\ ParseVal(stateFile.seed) = seed /\ ParseVal(stateFile.index) = index

====
